---- MODULE Spec2Model ----
(***************************************************************************)
(* PhishGuard URL threat-scoring core: the URL normalizer, the local       *)
(* threat store (sqlite tables scam_urls, user_reports, detection_history),*)
(* the heuristic analyzers and the verdict combiner analyze_url, together  *)
(* with report_scam.  Sources: python_services/app/phish_core.py and       *)
(* python_services/app/database.py.                                        *)
(*                                                                         *)
(* Python strings are modelled as sequences of one-character strings, so   *)
(* that prefixing, lower-casing, stripping, query filtering and substring  *)
(* search are computed, not assumed.  The state holds a string by its name *)
(* (a TLA+ string); Chars gives the characters of every string the model   *)
(* can produce and Str goes back from characters to the name.              *)
(***************************************************************************)
EXTENDS Integers, Sequences, FiniteSets, TLC

(***************************************************************************)
(* The strings of the model: the request inputs, every string the code     *)
(* derives from them, the default scam URLs and the literals of the code.  *)
(***************************************************************************)
Chars ==
  ("https://google.com" :> <<"h","t","t","p","s",":","/","/","g","o","o","g","l","e",".","c","o","m">>) @@
  ("bit.ly/xyz" :> <<"b","i","t",".","l","y","/","x","y","z">>) @@
  ("https://bit.ly/xyz" :> <<"h","t","t","p","s",":","/","/","b","i","t",".","l","y","/","x","y","z">>) @@
  ("http://192.168.1.1/malware.exe" :> <<"h","t","t","p",":","/","/","1","9","2",".","1","6","8",".","1",".","1","/","m","a","l","w","a","r","e",".","e","x","e">>) @@
  ("https://kbz-verify-account.secure-banking.cf" :> <<"h","t","t","p","s",":","/","/","k","b","z","-","v","e","r","i","f","y","-","a","c","c","o","u","n","t",".","s","e","c","u","r","e","-","b","a","n","k","i","n","g",".","c","f">>) @@
  ("https://evil.com/a?ref=1&id=7#x" :> <<"h","t","t","p","s",":","/","/","e","v","i","l",".","c","o","m","/","a","?","r","e","f","=","1","&","i","d","=","7","#","x">>) @@
  ("https://evil.com/a?id=7" :> <<"h","t","t","p","s",":","/","/","e","v","i","l",".","c","o","m","/","a","?","i","d","=","7">>) @@
  ("Evil.com/a" :> <<"E","v","i","l",".","c","o","m","/","a">>) @@
  ("https://evil.com/a" :> <<"h","t","t","p","s",":","/","/","e","v","i","l",".","c","o","m","/","a">>) @@
  ("https://Evil.com/a" :> <<"h","t","t","p","s",":","/","/","E","v","i","l",".","c","o","m","/","a">>) @@
  ("https://[bad" :> <<"h","t","t","p","s",":","/","/","[","b","a","d">>) @@
  ("https://kbz-verify.com/lottery-myanmar" :> <<"h","t","t","p","s",":","/","/","k","b","z","-","v","e","r","i","f","y",".","c","o","m","/","l","o","t","t","e","r","y","-","m","y","a","n","m","a","r">>) @@
  ("http://1.2.3.4.5/x" :> <<"h","t","t","p",":","/","/","1",".","2",".","3",".","4",".","5","/","x">>) @@
  ("https://evil.com/a?pref=x&id=7" :> <<"h","t","t","p","s",":","/","/","e","v","i","l",".","c","o","m","/","a","?","p","r","e","f","=","x","&","i","d","=","7">>) @@
  ("https://myanmar-lottery-winner.com" :> <<"h","t","t","p","s",":","/","/","m","y","a","n","m","a","r","-","l","o","t","t","e","r","y","-","w","i","n","n","e","r",".","c","o","m">>) @@
  ("https://kbz-bank-secure-login.tk" :> <<"h","t","t","p","s",":","/","/","k","b","z","-","b","a","n","k","-","s","e","c","u","r","e","-","l","o","g","i","n",".","t","k">>) @@
  ("https://myanmar-inheritance-claim.ml" :> <<"h","t","t","p","s",":","/","/","m","y","a","n","m","a","r","-","i","n","h","e","r","i","t","a","n","c","e","-","c","l","a","i","m",".","m","l">>) @@
  ("https://police-myanmar-court-case.cf" :> <<"h","t","t","p","s",":","/","/","p","o","l","i","c","e","-","m","y","a","n","m","a","r","-","c","o","u","r","t","-","c","a","s","e",".","c","f">>) @@
  ("https://facebook-login-secure.com" :> <<"h","t","t","p","s",":","/","/","f","a","c","e","b","o","o","k","-","l","o","g","i","n","-","s","e","c","u","r","e",".","c","o","m">>) @@
  ("https://google-account-verify.tk" :> <<"h","t","t","p","s",":","/","/","g","o","o","g","l","e","-","a","c","c","o","u","n","t","-","v","e","r","i","f","y",".","t","k">>) @@
  ("https://paypal-secure-login.ml" :> <<"h","t","t","p","s",":","/","/","p","a","y","p","a","l","-","s","e","c","u","r","e","-","l","o","g","i","n",".","m","l">>) @@
  ("https://amazon-account-verify.cf" :> <<"h","t","t","p","s",":","/","/","a","m","a","z","o","n","-","a","c","c","o","u","n","t","-","v","e","r","i","f","y",".","c","f">>) @@
  ("https://free-software-download.tk" :> <<"h","t","t","p","s",":","/","/","f","r","e","e","-","s","o","f","t","w","a","r","e","-","d","o","w","n","l","o","a","d",".","t","k">>) @@
  ("https://cracked-games-free.ml" :> <<"h","t","t","p","s",":","/","/","c","r","a","c","k","e","d","-","g","a","m","e","s","-","f","r","e","e",".","m","l">>) @@
  ("https://adult-content-free.cf" :> <<"h","t","t","p","s",":","/","/","a","d","u","l","t","-","c","o","n","t","e","n","t","-","f","r","e","e",".","c","f">>) @@
  ("http://" :> <<"h","t","t","p",":","/","/">>) @@
  ("https://" :> <<"h","t","t","p","s",":","/","/">>) @@
  ("http" :> <<"h","t","t","p">>) @@
  ("https" :> <<"h","t","t","p","s">>) @@
  ("://" :> <<":","/","/">>) @@
  ("utm_source" :> <<"u","t","m","_","s","o","u","r","c","e">>) @@
  ("utm_medium" :> <<"u","t","m","_","m","e","d","i","u","m">>) @@
  ("utm_campaign" :> <<"u","t","m","_","c","a","m","p","a","i","g","n">>) @@
  ("ref" :> <<"r","e","f">>) @@
  ("source" :> <<"s","o","u","r","c","e">>) @@
  ("bit.ly" :> <<"b","i","t",".","l","y">>) @@
  ("goo.gl" :> <<"g","o","o",".","g","l">>) @@
  ("tinyurl.com" :> <<"t","i","n","y","u","r","l",".","c","o","m">>) @@
  ("t.co" :> <<"t",".","c","o">>) @@
  (".tk" :> <<".","t","k">>) @@
  (".ml" :> <<".","m","l">>) @@
  (".ga" :> <<".","g","a">>) @@
  (".cf" :> <<".","c","f">>) @@
  (".gq" :> <<".","g","q">>) @@
  ("kbz" :> <<"k","b","z">>) @@
  ("ayeyarwady" :> <<"a","y","e","y","a","r","w","a","d","y">>) @@
  ("cb" :> <<"c","b">>) @@
  ("mab" :> <<"m","a","b">>) @@
  ("uab" :> <<"u","a","b">>) @@
  ("yoma" :> <<"y","o","m","a">>) @@
  ("kanbawza" :> <<"k","a","n","b","a","w","z","a">>) @@
  ("myanmar" :> <<"m","y","a","n","m","a","r">>) @@
  ("burma" :> <<"b","u","r","m","a">>) @@
  ("yangon" :> <<"y","a","n","g","o","n">>) @@
  ("mandalay" :> <<"m","a","n","d","a","l","a","y">>) @@
  ("naypyidaw" :> <<"n","a","y","p","y","i","d","a","w">>) @@
  ("kyat" :> <<"k","y","a","t">>) @@
  ("mmk" :> <<"m","m","k">>) @@
  ("myanmar kyat" :> <<"m","y","a","n","m","a","r"," ","k","y","a","t">>) @@
  ("dollar" :> <<"d","o","l","l","a","r">>) @@
  ("usd" :> <<"u","s","d">>) @@
  ("lottery" :> <<"l","o","t","t","e","r","y">>) @@
  ("sweepstakes" :> <<"s","w","e","e","p","s","t","a","k","e","s">>) @@
  ("inheritance" :> <<"i","n","h","e","r","i","t","a","n","c","e">>) @@
  ("refund" :> <<"r","e","f","u","n","d">>) @@
  ("tax" :> <<"t","a","x">>) @@
  ("customs" :> <<"c","u","s","t","o","m","s">>) @@
  ("immigration" :> <<"i","m","m","i","g","r","a","t","i","o","n">>) @@
  ("police" :> <<"p","o","l","i","c","e">>) @@
  ("court" :> <<"c","o","u","r","t">>) @@
  ("account" :> <<"a","c","c","o","u","n","t">>) @@
  ("action" :> <<"a","c","t","i","o","n">>) @@
  ("bank" :> <<"b","a","n","k">>) @@
  ("diamonds" :> <<"d","i","a","m","o","n","d","s">>) @@
  ("double" :> <<"d","o","u","b","l","e">>) @@
  ("facebook" :> <<"f","a","c","e","b","o","o","k">>) @@
  ("fb" :> <<"f","b">>) @@
  ("free" :> <<"f","r","e","e">>) @@
  ("game" :> <<"g","a","m","e">>) @@
  ("gift" :> <<"g","i","f","t">>) @@
  ("hack" :> <<"h","a","c","k">>) @@
  ("immediate" :> <<"i","m","m","e","d","i","a","t","e">>) @@
  ("investment" :> <<"i","n","v","e","s","t","m","e","n","t">>) @@
  ("login" :> <<"l","o","g","i","n">>) @@
  ("money" :> <<"m","o","n","e","y">>) @@
  ("prize" :> <<"p","r","i","z","e">>) @@
  ("profit" :> <<"p","r","o","f","i","t">>) @@
  ("response" :> <<"r","e","s","p","o","n","s","e">>) @@
  ("secure" :> <<"s","e","c","u","r","e">>) @@
  ("urgent" :> <<"u","r","g","e","n","t">>) @@
  ("verify" :> <<"v","e","r","i","f","y">>) @@
  ("win" :> <<"w","i","n">>) @@
  ("" :> <<>>)

Strings == DOMAIN Chars

\* The name of a character sequence (defined for every string the code can
\* derive from the inputs: TLC reports an error if a derived string is missing).
Str(cs) == CHOOSE s \in Strings : Chars[s] = cs

(***************************************************************************)
(* Python str operations used by the code.                                 *)
(***************************************************************************)
SetMin(S) == CHOOSE x \in S : \A y \in S : x <= y

\* s[i : i+len(p)] == p   (1-based i)
OccursAt(s, p, i) ==
  /\ i >= 1
  /\ i + Len(p) - 1 <= Len(s)
  /\ SubSeq(s, i, i + Len(p) - 1) = p

\* s.startswith(p)
StartsWith(s, p) == OccursAt(s, p, 1)

\* s.find(p, start) as a 1-based index, 0 when p does not occur
Find(s, p, start) ==
  LET hits == {i \in start..(Len(s) - Len(p) + 1) : OccursAt(s, p, i)}
  IN  IF hits = {} THEN 0 ELSE SetMin(hits)

\* p in s
Contains(s, p) == Find(s, p, 1) # 0

UpperAlpha == <<"A","B","C","D","E","F","G","H","I","J","K","L","M",
                "N","O","P","Q","R","S","T","U","V","W","X","Y","Z">>
LowerAlpha == <<"a","b","c","d","e","f","g","h","i","j","k","l","m",
                "n","o","p","q","r","s","t","u","v","w","x","y","z">>
Digits == {"0","1","2","3","4","5","6","7","8","9"}
Letters == {UpperAlpha[i] : i \in 1..26} \cup {LowerAlpha[i] : i \in 1..26}
Whitespace == {" "}

LowerChar(c) ==
  IF \E i \in 1..26 : UpperAlpha[i] = c
  THEN LowerAlpha[CHOOSE i \in 1..26 : UpperAlpha[i] = c]
  ELSE c

\* s.lower()
lower(s) == [i \in 1..Len(s) |-> LowerChar(s[i])]

\* s.lstrip() and s.strip()
RECURSIVE lstrip(_)
lstrip(s) == IF s # <<>> /\ Head(s) \in Whitespace THEN lstrip(Tail(s)) ELSE s
RECURSIVE rstrip(_)
rstrip(s) ==
  IF s # <<>> /\ s[Len(s)] \in Whitespace THEN rstrip(SubSeq(s, 1, Len(s) - 1)) ELSE s
strip(s) == rstrip(lstrip(s))

\* s.split(sep) for a one-character separator: a sequence of strings
RECURSIVE split(_, _)
split(s, sep) ==
  LET i == Find(s, <<sep>>, 1)
  IN  IF i = 0 THEN <<s>>
      ELSE <<SubSeq(s, 1, i - 1)>> \o split(SubSeq(s, i + 1, Len(s)), sep)

\* sep.join(parts)
RECURSIVE join(_, _)
join(parts, sep) ==
  IF parts = <<>> THEN <<>>
  ELSE IF Len(parts) = 1 THEN parts[1]
  ELSE parts[1] \o <<sep>> \o join(Tail(parts), sep)

\* len(re.findall(r'[^a-zA-Z0-9./-]', s))
SpecialCount(s) ==
  Cardinality({i \in 1..Len(s) : s[i] \notin (Letters \cup Digits \cup {".", "/", "-"})})

(***************************************************************************)
(* urllib.parse.urlparse, as far as the code depends on it: the scheme is  *)
(* split off at the first ':' when everything before it is scheme          *)
(* characters, the netloc runs from '//' to the first of '/', '?', '#', a  *)
(* netloc with an unmatched bracket raises ValueError, then the fragment,  *)
(* the query and (for http and https) the params are split off.            *)
(***************************************************************************)
SchemeChars == Letters \cup Digits \cup {"+", "-", "."}

SplitScheme(url) ==
  LET i == Find(url, <<":">>, 1)
  IN  IF /\ i > 1
         /\ url[1] \in Letters
         /\ \A j \in 1..(i - 1) : url[j] \in SchemeChars
      THEN [scheme |-> lower(SubSeq(url, 1, i - 1)), rest |-> SubSeq(url, i + 1, Len(url))]
      ELSE [scheme |-> <<>>, rest |-> url]

\* _splitnetloc(url, 2)
SplitNetloc(url) ==
  LET ends  == {Find(url, <<c>>, 3) : c \in {"/", "?", "#"}} \ {0}
      delim == IF ends = {} THEN Len(url) + 1 ELSE SetMin(ends)
  IN  [netloc |-> SubSeq(url, 3, delim - 1), rest |-> SubSeq(url, delim, Len(url))]

\* _splitparams(path)
SplitParams(path) ==
  LET slashes == {i \in 1..Len(path) : path[i] = "/"}
      from    == IF slashes = {} THEN 1 ELSE CHOOSE i \in slashes : \A j \in slashes : j <= i
      k       == Find(path, <<";">>, from)
  IN  IF k = 0 THEN [path |-> path, params |-> <<>>]
      ELSE [path |-> SubSeq(path, 1, k - 1), params |-> SubSeq(path, k + 1, Len(path))]

\* uses_params holds '', 'http' and 'https' among schemes no input has
UsesParams == {<<>>, <<"h","t","t","p">>, <<"h","t","t","p","s">>}

\* netloc, url = _splitnetloc(url, 2) when url[:2] == '//'
NetlocOf(url) ==
  IF StartsWith(url, <<"/", "/">>) THEN SplitNetloc(url) ELSE [netloc |-> <<>>, rest |-> url]

\* url, tail = url.split(c, 1) when c is in url
Cut(url, c) ==
  LET i == Find(url, <<c>>, 1)
  IN  IF i = 0 THEN [head |-> url, tail |-> <<>>]
      ELSE [head |-> SubSeq(url, 1, i - 1), tail |-> SubSeq(url, i + 1, Len(url))]

\* url, params = _splitparams(url) when the scheme uses params and ';' is in url
PathParams(scheme, path) ==
  IF scheme \in UsesParams /\ Contains(path, <<";">>)
  THEN SplitParams(path) ELSE [path |-> path, params |-> <<>>]

urlparse(url0) ==
  LET s  == SplitScheme(lstrip(url0))
      nl == NetlocOf(s.rest)
      f  == Cut(nl.rest, "#")
      q  == Cut(f.head, "?")
      pp == PathParams(s.scheme, q.head)
  IN  [raises   |-> Contains(nl.netloc, <<"[">>) # Contains(nl.netloc, <<"]">>),
                    \* ValueError("Invalid IPv6 URL")
       scheme   |-> s.scheme,
       netloc   |-> nl.netloc,
       path     |-> pp.path,
       params   |-> pp.params,
       query    |-> q.tail,
       fragment |-> f.tail]

(***************************************************************************)
(* PhishGuardCore._normalize_url.  The result is [raises, url]: urlparse   *)
(* may raise, and the exception leaves _normalize_url.                     *)
(***************************************************************************)
http_prefix  == <<"h","t","t","p",":","/","/">>
https_prefix == <<"h","t","t","p","s",":","/","/">>

tracking_params == <<"utm_source", "utm_medium", "utm_campaign", "ref", "source">>

IsTracking(p) == \E k \in 1..Len(tracking_params) : Contains(p, Chars[tracking_params[k]])

\* '&'.join(p for p in query.split('&') if not tracking) if query else ''
CleanQuery(query) ==
  LET query_params    == IF query # <<>> THEN split(query, "&") ELSE <<>>
      NotTracking(p)  == ~IsTracking(p)
      filtered_params == SelectSeq(query_params, NotTracking)
  IN  IF filtered_params # <<>> THEN join(filtered_params, "&") ELSE <<>>

\* f"{scheme}://{netloc}{path}", then f"?{clean_query}" if clean_query
CleanUrl(parsed, clean_query) ==
  parsed.scheme \o <<":", "/", "/">> \o parsed.netloc \o parsed.path
    \o (IF clean_query # <<>> THEN <<"?">> \o clean_query ELSE <<>>)

_normalize_url(url0) ==
  LET parsed == urlparse(IF StartsWith(url0, http_prefix) \/ StartsWith(url0, https_prefix)
                         THEN url0 ELSE https_prefix \o url0)
  IN  IF parsed.raises THEN [raises |-> TRUE, url |-> <<>>]
      ELSE [raises |-> FALSE, url |-> CleanUrl(parsed, CleanQuery(parsed.query))]

(***************************************************************************)
(* PhishGuardDatabase._hash_url: lower-case, strip, default the scheme,    *)
(* then SHA-256.  The digest is represented by the string that is hashed   *)
(* (SHA-256 taken as injective), so two URLs have the same url_hash        *)
(* exactly when their hashed strings are equal.                            *)
(***************************************************************************)
_hash_url(url) ==
  LET normalized == strip(lower(url))
  IN  IF StartsWith(normalized, http_prefix) \/ StartsWith(normalized, https_prefix)
      THEN normalized ELSE https_prefix \o normalized

(***************************************************************************)
(* Heuristic scores are Python floats.  A score is [tenths, ulp]: the      *)
(* double nearest to tenths/10, moved by ulp units in the last place.      *)
(* FloatAdd is IEEE-754 addition on the sums the analyzers form: 0.2 + 0.4 *)
(* and 0.4 + 0.2 give 0.6000000000000001, 0.6000000000000001 + 0.3 gives   *)
(* 0.9000000000000001 and 0.7 + 0.2 gives 0.8999999999999999; every other  *)
(* sum up to 1.0 is the double nearest to the decimal sum.  Above 1.0 the  *)
(* last place is not tracked: the only use of such a sum is min(score, 1.0)*)
(***************************************************************************)
F(t) == [tenths |-> t, ulp |-> 0]

FloatAdd(x, a) ==
  CASE x = F(2) /\ a = 4 -> [tenths |-> 6, ulp |-> 1]
    [] x = F(4) /\ a = 2 -> [tenths |-> 6, ulp |-> 1]
    [] x = [tenths |-> 6, ulp |-> 1] /\ a = 3 -> [tenths |-> 9, ulp |-> 1]
    [] x = F(7) /\ a = 2 -> [tenths |-> 9, ulp |-> -1]
    [] OTHER -> F(x.tenths + a)

\* x > t/10 for a float x and the literal t/10
FloatGt(x, t) == x.tenths > t \/ (x.tenths = t /\ x.ulp > 0)

\* min(score, 1.0)
MinOne(x) == IF FloatGt(x, 10) THEN F(10) ELSE x

\* x + a if cond else x
AddIf(x, cond, a) == IF cond THEN FloatAdd(x, a) ELSE x

(***************************************************************************)
(* re.search for the patterns of the code.  A pattern is a set of          *)
(* alternatives ('|'), an alternative a sequence of literal pieces joined  *)
(* by '.*': it matches when the pieces occur in this order without         *)
(* overlapping.  (The URLs hold no newline, which '.' would not match.)    *)
(***************************************************************************)
RECURSIVE MatchFrom(_, _, _)
\* the first occurrence of `piece` at or after `from`, then the other pieces
MatchPiece(s, piece, pieces, from) ==
  LET i == Find(s, piece, from)
  IN  i # 0 /\ MatchFrom(s, pieces, i + Len(piece))

MatchFrom(s, pieces, from) ==
  pieces = <<>> \/ MatchPiece(s, Chars[Head(pieces)], Tail(pieces), from)

re_search(pattern, s) == \E alt \in pattern : MatchFrom(s, alt, 1)

threat_patterns == <<
  {<<"bit.ly">>, <<"goo.gl">>, <<"tinyurl.com">>},
  {<<"facebook", "login">>, <<"fb", "login">>},
  {<<"bank", "verify">>, <<"account", "secure">>},
  {<<"free", "gift">>, <<"win", "prize">>},
  {<<"urgent", "action">>, <<"immediate", "response">>},
  {<<"myanmar", "bank">>, <<"kbz", "verify">>},
  {<<"game", "hack">>, <<"free", "diamonds">>},
  {<<"investment", "profit">>, <<"money", "double">>} >>

myanmar_patterns == <<
  {<<"kbz", "verify">>, <<"kbz", "secure">>},
  {<<"myanmar", "bank", "login">>},
  {<<"lottery", "myanmar">>, <<"sweepstakes", "burma">>},
  {<<"inheritance", "myanmar">>, <<"refund", "kyat">>},
  {<<"police", "myanmar">>, <<"court", "yangon">>} >>

myanmar_scam_keywords ==
  {"kbz", "ayeyarwady", "cb", "mab", "uab", "yoma", "kanbawza",
   "myanmar", "burma", "yangon", "mandalay", "naypyidaw",
   "kyat", "mmk", "myanmar kyat", "dollar", "usd",
   "lottery", "sweepstakes", "inheritance", "refund",
   "tax", "customs", "immigration", "police", "court"}

shorteners == {"bit.ly", "goo.gl", "tinyurl.com", "t.co"}
suspicious_tlds == {".tk", ".ml", ".ga", ".cf", ".gq"}

\* for pattern in patterns: if re.search(pattern, s): score += a
RECURSIVE AddMatches(_, _, _, _)
AddMatches(score, patterns, s, a) ==
  IF patterns = <<>> THEN score
  ELSE AddMatches(AddIf(score, re_search(Head(patterns), s), a), Tail(patterns), s, a)

\* PhishGuardCore._pattern_analysis
_pattern_analysis(url) ==
  LET url_lower == lower(url)
      s1 == AddIf(F(0), \E p \in shorteners : Contains(url_lower, Chars[p]), 3)
      s2 == AddMatches(s1, threat_patterns, url_lower, 2)
      \* special_char_ratio = count / len(url) > 0.3
      s3 == AddIf(s2, 10 * SpecialCount(url) > 3 * Len(url), 2)
      s4 == AddIf(s3, \E tld \in suspicious_tlds : Contains(url_lower, Chars[tld]), 4)
      s5 == AddMatches(s4, myanmar_patterns, url_lower, 5)
  IN  MinOne(s5)

\* re.match(r'\d+\.\d+\.\d+\.\d+', s): n groups of digits separated by dots,
\* at the start of s
RECURSIVE DigitRun(_, _)
DigitRun(s, i) == IF i <= Len(s) /\ s[i] \in Digits THEN DigitRun(s, i + 1) ELSE i

RECURSIVE MatchQuad(_, _, _)
MatchQuad(s, i, n) ==
  LET j == DigitRun(s, i)
  IN  /\ j > i
      /\ \/ n = 1
         \/ \E k \in (i + 1)..j :     \* \d+ may give back digits, never below one
              /\ k <= Len(s) /\ s[k] = "."
              /\ MatchQuad(s, k + 1, n - 1)

\* the score _analyze_url_structure gives to domain = parsed.netloc
DomainScore(netloc) ==
  LET s1 == AddIf(F(0), Len(netloc) > 50, 2)
      s2 == AddIf(s1, MatchQuad(netloc, 1, 4), 4)
      s3 == AddIf(s2, \E tld \in suspicious_tlds : Contains(netloc, Chars[tld]), 3)
      subdomain_count == Len(split(netloc, ".")) - 1
      s4 == AddIf(s3, subdomain_count > 3, 2)
  IN  MinOne(s4)

\* PhishGuardCore._analyze_url_structure
_analyze_url_structure(url) == DomainScore(urlparse(url).netloc)

\* PhishGuardCore._detect_myanmar_scams
_detect_myanmar_scams(url) ==
  LET url_lower == lower(url)
      myanmar_matches ==
        Cardinality({k \in myanmar_scam_keywords : Contains(url_lower, Chars[k])})
      s1 == AddIf(F(0), myanmar_matches > 0, 3)
      s2 == AddMatches(s1, myanmar_patterns, url_lower, 4)
  IN  MinOne(s2)

(***************************************************************************)
(* Bounds and inputs.                                                      *)
(***************************************************************************)
\* requests served in one behaviour (analyze_url, report_scam and
\* initialize_database calls); also the range of the logical clock
MaxOps == 2

\* concurrent callers of one operation
MaxCallers == 3

\* the range of time.time(), in ticks
MaxClock == 5

\* URLs passed to analyze_url
AnalyzeInputs ==
  {"bit.ly/xyz",                                    \* no scheme, a shortener
   "http://192.168.1.1/malware.exe",                \* literal IP host
   "https://kbz-verify-account.secure-banking.cf",  \* one of the default scam URLs
   "https://evil.com/a?ref=1&id=7#x",               \* tracking parameter, fragment
   "Evil.com/a",                                    \* upper case, no scheme
   "https://[bad",                                  \* urlparse raises ValueError
   "https://kbz-verify.com/lottery-myanmar",        \* regional patterns
   "http://1.2.3.4.5/x",                            \* IP-like host with four dots
   "https://evil.com/a?pref=x&id=7"}                \* a key that contains 'ref'

\* URLs passed to report_scam
ReportInputs ==
  {"bit.ly/xyz",
   "https://kbz-verify-account.secure-banking.cf",
   "https://evil.com/a?ref=1&id=7#x",
   "https://[bad"}

\* URLs looked up by concurrent callers: two of the default scam URLs and
\* one the store does not hold
LookupInputs ==
  {"https://kbz-verify-account.secure-banking.cf",
   "https://myanmar-lottery-winner.com",
   "https://bit.ly/xyz"}

\* _normalize_url on the URLs analyze_url is given, by name
NormalizedName(n) == [raises |-> n.raises, url |-> IF n.raises THEN "" ELSE Str(n.url)]

Normalized == [u \in AnalyzeInputs |-> NormalizedName(_normalize_url(Chars[u]))]

NormalizedURLs == {n.url : n \in {Normalized[u] : u \in AnalyzeInputs}} \ {""}

\* The key assigned to apis['urlhaus']['auth_key'] when URLhaus is configured
AuthKey == "k"

(***************************************************************************)
(* The sqlite tables.  A table is the sequence of its rows in insertion    *)
(* order.  Confidence values are in hundredths (70 is 0.7).  The columns   *)
(* domain and tags of scam_urls, and user_id, report_type, reviewed_at and *)
(* reviewed_by of user_reports, are written and never read by the core;    *)
(* they are left out.                                                      *)
(***************************************************************************)
default_scams == <<
  [url |-> "https://kbz-verify-account.secure-banking.cf", threat_type |-> "phishing", source |-> "kbz_bank"],
  [url |-> "https://myanmar-lottery-winner.com",           threat_type |-> "scam",     source |-> "lottery"],
  [url |-> "https://kbz-bank-secure-login.tk",             threat_type |-> "phishing", source |-> "kbz_bank"],
  [url |-> "https://myanmar-inheritance-claim.ml",         threat_type |-> "scam",     source |-> "inheritance"],
  [url |-> "https://police-myanmar-court-case.cf",         threat_type |-> "scam",     source |-> "police"],
  [url |-> "https://facebook-login-secure.com",            threat_type |-> "phishing", source |-> "facebook"],
  [url |-> "https://google-account-verify.tk",             threat_type |-> "phishing", source |-> "google"],
  [url |-> "https://paypal-secure-login.ml",               threat_type |-> "phishing", source |-> "paypal"],
  [url |-> "https://amazon-account-verify.cf",             threat_type |-> "phishing", source |-> "amazon"],
  [url |-> "https://free-software-download.tk",            threat_type |-> "malware",  source |-> "software"],
  [url |-> "https://cracked-games-free.ml",                threat_type |-> "malware",  source |-> "games"],
  [url |-> "https://adult-content-free.cf",                threat_type |-> "malware",  source |-> "adult"] >>

\* the URLs the store is given: normalized by analyze_url, raw by report_scam
StoredURLs ==
  NormalizedURLs \cup ReportInputs \cup LookupInputs \cup {default_scams[k].url : k \in 1..Len(default_scams)}

\* _hash_url and urlparse on them (both are pure: these tables hold their values)
url_hashes == [u \in StoredURLs |-> Str(_hash_url(Chars[u]))]
parse_raises == [u \in StoredURLs |-> urlparse(Chars[u]).raises]

\* url_hash of a URL given by name
HashOf(url) == url_hashes[url]

\* A new scam_urls row; report_count and is_active take the column defaults
\* (report_count INTEGER DEFAULT 1, is_active BOOLEAN DEFAULT 1)
ScamRow(id, url_hash, url, threat_type, source, confidence, t) ==
  [id |-> id, url_hash |-> url_hash, original_url |-> url,
   threat_type |-> threat_type, source |-> source, confidence |-> confidence,
   first_seen |-> t, last_seen |-> t, report_count |-> 1, is_active |-> TRUE]

HasHash(rows, h) == \E i \in 1..Len(rows) : rows[i].url_hash = h

\* An INSERT that adds its row whatever the table holds: what InsertOrIgnore
\* must not be
InsertAlways(rows, row) == Append(rows, row)

\* INSERT OR IGNORE INTO scam_urls: the UNIQUE constraint on url_hash makes
\* the statement a no-op when a row with this url_hash exists
InsertOrIgnore(rows, row) == IF HasHash(rows, row.url_hash) THEN rows ELSE Append(rows, row)

\* A bump that also rewrites the record as a user report, as a REPLACE of the
\* row would: what BumpRow must not be
BumpRowReplace(rows, h, t) ==
  [i \in 1..Len(rows) |->
     IF rows[i].url_hash = h
     THEN [rows[i] EXCEPT !.report_count = @ + 1, !.last_seen = t,
                          !.threat_type = "user_reported", !.source = "user_report",
                          !.confidence = 70]
     ELSE rows[i]]

\* A bump that refreshes last_seen and leaves report_count as it is: what
\* BumpRow must not be
BumpRowStale(rows, h, t) ==
  [i \in 1..Len(rows) |->
     IF rows[i].url_hash = h THEN [rows[i] EXCEPT !.last_seen = t] ELSE rows[i]]

\* UPDATE scam_urls SET report_count = report_count + 1,
\*                      last_seen = CURRENT_TIMESTAMP WHERE url_hash = ?
BumpRow(rows, h, t) ==
  [i \in 1..Len(rows) |->
     IF rows[i].url_hash = h
     THEN [rows[i] EXCEPT !.report_count = @ + 1, !.last_seen = t]
     ELSE rows[i]]

\* SELECT ... FROM scam_urls WHERE url_hash = ? AND is_active = 1; fetchone()
SelectActive(rows, h) ==
  LET hits == {i \in 1..Len(rows) : rows[i].url_hash = h /\ rows[i].is_active}
  IN  IF hits = {} THEN [found |-> FALSE]
      ELSE LET r == rows[SetMin(hits)]
           IN  [found |-> TRUE, threat_type |-> r.threat_type, confidence |-> r.confidence,
                source |-> r.source, report_count |-> r.report_count]

\* PhishGuardDatabase.add_default_scam_urls: one transaction; every
\* INSERT OR IGNORE, ignored or not, advances the AUTOINCREMENT sequence
RECURSIVE InsertDefaults(_, _, _, _)
InsertDefaults(rows, seq, k, t) ==
  IF k > Len(default_scams) THEN rows
  ELSE LET d == default_scams[k]
       IN  InsertDefaults(
             InsertOrIgnore(rows, ScamRow(seq + k, HashOf(d.url), d.url, d.threat_type,
                                          d.source, 90, t)),
             seq, k + 1, t)

\* A lookup that finds no record whatever the table holds: what CheckHash
\* must not be
CheckHashMiss(rows, h, t, fails) == [result |-> [found |-> FALSE], scam_urls |-> rows]

\* The transaction of check_url_in_database on url_hash h: the SELECT and,
\* on a hit, the UPDATE; `fails` is a sqlite error anywhere in it, which
\* rolls it back and returns None
CheckHash(rows, h, t, fails) ==
  LET hit == SelectActive(rows, h)
  IN  IF fails \/ ~hit.found
      THEN [result |-> [found |-> FALSE], scam_urls |-> rows]
      ELSE [result |-> hit, scam_urls |-> BumpRow(rows, h, t)]

\* PhishGuardDatabase.check_url_in_database
check_url_in_database(rows, url, t, fails) == CheckHash(rows, HashOf(url), t, fails)

\* A report that is filed and leaves scam_urls alone: what AddReport must not be
AddReportNoRecord(tabs, url, h, description, t, fails) ==
  IF fails
  THEN [tabs |-> tabs, ret |-> [success |-> FALSE, message |-> "Error adding report"]]
  ELSE [tabs |-> [scam_urls    |-> tabs.scam_urls,
                  scam_seq     |-> tabs.scam_seq,
                  user_reports |-> Append(tabs.user_reports,
                                    [id |-> Len(tabs.user_reports) + 1, url_hash |-> h,
                                     original_url |-> url, description |-> description,
                                     status |-> "pending"])],
        ret  |-> [success |-> TRUE, message |-> "Report added successfully",
                  report_id |-> Len(tabs.user_reports) + 1, url_hash |-> h]]

\* A report whose INSERT INTO user_reports survives the failure of the
\* statements after it, as it would were each statement committed on its
\* own: what AddReport must not be
AddReportPartial(tabs, url, h, description, t, fails) ==
  IF fails
  THEN [tabs |-> [tabs EXCEPT !.user_reports =
                    Append(@, [id |-> Len(@) + 1, url_hash |-> h, original_url |-> url,
                               description |-> description, status |-> "pending"])],
        ret  |-> [success |-> FALSE, message |-> "Error adding report"]]
  ELSE AddReportNoRecord(tabs, url, h, description, t, fails)

\* The transaction of add_user_report on url_hash h: INSERT INTO
\* user_reports, INSERT OR IGNORE INTO scam_urls, UPDATE scam_urls.  `fails`
\* is an exception anywhere in it, which rolls it back and returns success
\* False.  The report_id is cursor.lastrowid: the rowid of the last row the
\* connection inserted, which is the new scam_urls row when the URL was not
\* known and the user_reports row otherwise.
AddReport(tabs, url, h, description, t, fails) ==
  LET rid      == Len(tabs.user_reports) + 1
      sid      == tabs.scam_seq + 1
      isNew    == ~HasHash(tabs.scam_urls, h)
      inserted == InsertOrIgnore(tabs.scam_urls,
                                 ScamRow(sid, h, url, "user_reported", "user_report", 70, t))
  IN  IF fails
      THEN [tabs |-> tabs, ret |-> [success |-> FALSE, message |-> "Error adding report"]]
      ELSE [tabs |-> [scam_urls    |-> BumpRow(inserted, h, t),
                      scam_seq     |-> sid,
                      user_reports |-> Append(tabs.user_reports,
                                        [id |-> rid, url_hash |-> h, original_url |-> url,
                                         description |-> description, status |-> "pending"])],
            ret  |-> [success |-> TRUE, message |-> "Report added successfully",
                      report_id |-> IF isNew THEN sid ELSE rid, url_hash |-> h]]

\* PhishGuardDatabase.add_user_report: urlparse(url) may raise and sqlite
\* may fail, both inside the try
add_user_report(tabs, url, description, t, fails) ==
  AddReport(tabs, url, HashOf(url), description, t, fails \/ parse_raises[url])

\* PhishGuardDatabase.log_detection: a sqlite error is logged and swallowed
log_detection(rows, url, threat_level, confidence, detection_methods, is_suspicious, fails) ==
  IF fails THEN rows
  ELSE Append(rows, [url_hash |-> HashOf(url), original_url |-> url,
                     threat_level |-> threat_level, confidence |-> confidence,
                     detection_methods |-> detection_methods,
                     is_suspicious |-> is_suspicious])

\* PhishGuardDatabase.get_database_stats
get_database_stats(scam, reports, history) ==
  [total_scam_urls       |-> Cardinality({i \in 1..Len(scam) : scam[i].is_active}),
   recent_detections_24h |-> Len(history),
   pending_user_reports  |-> Cardinality({i \in 1..Len(reports) : reports[i].status = "pending"})]

(***************************************************************************)
(* analyze_url: the results dict and the tiers.  Each tier is an operator  *)
(* from the dict before the tier to the dict after it.                     *)
(***************************************************************************)
\* results = {...} at the start of analyze_url (analysis_time, a wall-clock
\* reading, is left out)
InitialResults(normalized_url) ==
  [url |-> normalized_url, is_suspicious |-> FALSE, threat_level |-> "safe",
   detection_methods |-> <<>>, warnings |-> <<>>, confidence |-> 0]

\* Method 1 rating a known URL 'high': what TierLocal must not be
TierLocalHigh(results, db_result) ==
  [results EXCEPT !.is_suspicious = TRUE,
                  !.threat_level = "high",
                  !.detection_methods = Append(@, "local_database"),
                  !.confidence = @ + db_result.confidence,
                  !.warnings = Append(@, "Local DB")]

\* Method 1, on a hit of check_url_in_database
TierLocal(results, db_result) ==
  [results EXCEPT !.is_suspicious = TRUE,
                  !.threat_level = "critical",
                  !.detection_methods = Append(@, "local_database"),
                  !.confidence = @ + db_result.confidence,
                  !.warnings = Append(@, "Local DB")]

\* Method 2 adding 0.85 for a URLhaus detection: what TierUrlhaus must not be
TierUrlhausWeak(results) ==
  [results EXCEPT !.is_suspicious = TRUE,
                  !.threat_level = "critical",
                  !.detection_methods = Append(@, "urlhaus"),
                  !.confidence = @ + 85,
                  !.warnings = Append(@, "URLhaus")]

\* Method 2, when _check_urlhaus says is_malicious
TierUrlhaus(results) ==
  [results EXCEPT !.is_suspicious = TRUE,
                  !.threat_level = "critical",
                  !.detection_methods = Append(@, "urlhaus"),
                  !.confidence = @ + 95,
                  !.warnings = Append(@, "URLhaus")]

InSeq(x, s) == \E i \in 1..Len(s) : s[i] = x

\* the supplementary host check after a URLhaus detection
TierUrlhausHostExtra(results, host_malicious) ==
  IF ~host_malicious THEN results
  ELSE LET r == IF InSeq("urlhaus_host", results.detection_methods) THEN results
                ELSE [results EXCEPT !.detection_methods = Append(@, "urlhaus_host"),
                                     !.confidence = @ + 10]
       IN  [r EXCEPT !.warnings = Append(@, "URLhaus Host")]

\* the standalone host check
TierUrlhausHost(results, host_malicious) ==
  IF ~host_malicious THEN results
  ELSE [results EXCEPT !.is_suspicious = TRUE,
                       !.threat_level = "high",
                       !.detection_methods = Append(@, "urlhaus_host"),
                       !.confidence = @ + 85,
                       !.warnings = Append(@, "URLhaus Host")]

\* Method 3 leaving the threat_level as it finds it: what TierPhishTank must
\* not be
TierPhishTankSameLevel(results, is_phishing) ==
  IF ~is_phishing THEN results
  ELSE [results EXCEPT !.is_suspicious = TRUE,
                       !.detection_methods = Append(@, "phish_tank"),
                       !.confidence = @ + 80,
                       !.warnings = Append(@, "PhishTank")]

\* Method 3
TierPhishTank(results, is_phishing) ==
  IF ~is_phishing THEN results
  ELSE [results EXCEPT !.is_suspicious = TRUE,
                       !.threat_level = IF @ \in {"safe", "high"} THEN "critical" ELSE @,
                       !.detection_methods = Append(@, "phish_tank"),
                       !.confidence = @ + 80,
                       !.warnings = Append(@, "PhishTank")]

\* Method 4; confidence += pattern_score * 0.4, in hundredths
TierPattern(results, pattern_score) ==
  IF ~FloatGt(pattern_score, 3) THEN results
  ELSE [results EXCEPT !.is_suspicious = TRUE,
                       !.threat_level = IF @ = "safe"
                                        THEN (IF FloatGt(pattern_score, 7) THEN "high" ELSE "medium")
                                        ELSE @,
                       !.detection_methods = Append(@, "pattern_analysis"),
                       !.confidence = @ + 4 * pattern_score.tenths]

\* Method 5 setting 'medium' whatever the level was: what TierStructure must
\* not be
TierStructureOverwrite(results, structure_score) ==
  IF ~FloatGt(structure_score, 6) THEN results
  ELSE [results EXCEPT !.is_suspicious = TRUE,
                       !.threat_level = "medium",
                       !.detection_methods = Append(@, "url_structure"),
                       !.confidence = @ + 20]

\* Method 5
TierStructure(results, structure_score) ==
  IF ~FloatGt(structure_score, 6) THEN results
  ELSE [results EXCEPT !.is_suspicious = TRUE,
                       !.threat_level = IF @ = "safe" THEN "medium" ELSE @,
                       !.detection_methods = Append(@, "url_structure"),
                       !.confidence = @ + 20]

\* Method 6 firing at the threshold itself (myanmar_score >= 0.7): what
\* TierMyanmar must not be
TierMyanmarAtThreshold(results, myanmar_score) ==
  IF myanmar_score.tenths < 7 THEN results
  ELSE [results EXCEPT !.is_suspicious = TRUE,
                       !.threat_level = IF @ \in {"safe", "medium"} THEN "high" ELSE @,
                       !.detection_methods = Append(@, "myanmar_specific"),
                       !.confidence = @ + 40,
                       !.warnings = Append(@, "Myanmar")]

\* Method 6
TierMyanmar(results, myanmar_score) ==
  IF ~FloatGt(myanmar_score, 7) THEN results
  ELSE [results EXCEPT !.is_suspicious = TRUE,
                       !.threat_level = IF @ \in {"safe", "medium"} THEN "high" ELSE @,
                       !.detection_methods = Append(@, "myanmar_specific"),
                       !.confidence = @ + 40,
                       !.warnings = Append(@, "Myanmar")]

\* PhishGuardCore._generate_response_message
_generate_response_message(results) ==
  LET m == results.detection_methods
  IN  CASE results.threat_level = "critical" ->
             IF InSeq("urlhaus", m) THEN "CRITICAL: confirmed as MALWARE by URLhaus"
             ELSE IF InSeq("phish_tank", m) THEN "CRITICAL: confirmed as a phishing scam"
             ELSE "CRITICAL: confirmed as dangerous"
        [] results.threat_level = "high" ->
             IF InSeq("urlhaus_host", m) THEN "HIGH RISK: domain hosts malware URLs"
             ELSE IF InSeq("myanmar_specific", m) THEN "HIGH RISK: Myanmar-specific scam patterns"
             ELSE "HIGH RISK: strong signs of being a scam"
        [] results.threat_level = "medium" ->
             IF InSeq("pattern_analysis", m) THEN "SUSPICIOUS: concerning characteristics (patterns)"
             ELSE "SUSPICIOUS: some concerning characteristics"
        [] results.threat_level = "safe" ->
             IF InSeq("urlhaus", m) THEN "SAFE: checked against URLhaus"
             ELSE "SAFE: appears to be safe"
        [] OTHER -> "UNKNOWN"

\* results['confidence'] = min(results['confidence'], 1.0)
Clamp(confidence) == IF confidence < 100 THEN confidence ELSE 100

\* the dict analyze_url returns: confidence capped, message added
Finish(results) ==
  LET capped == [results EXCEPT !.confidence = Clamp(@)]
  IN  [url |-> capped.url, is_suspicious |-> capped.is_suspicious,
       threat_level |-> capped.threat_level,
       detection_methods |-> capped.detection_methods,
       warnings |-> capped.warnings, confidence |-> capped.confidence,
       message |-> _generate_response_message(capped)]

\* the dict of the except branch of analyze_url
ErrorResults(url) ==
  [url |-> url, is_suspicious |-> FALSE, threat_level |-> "unknown",
   error |-> "Invalid IPv6 URL", message |-> "Unable to analyze this URL at the moment."]

(***************************************************************************)
(* The external services.  A response is what the HTTP call did; the       *)
(* operators turn it into the dict the code builds from it.                *)
(***************************************************************************)
HttpResponses ==
  {"timeout", "connection_error", "malformed",      \* the call or response.json() raises
   "200 ok", "200 no_results", "200 other",         \* HTTP 200 and its query_status
   "401", "429", "500"}

\* PhishGuardCore._check_urlhaus: [is_malicious, status, requested]
_check_urlhaus(key, response) ==
  IF key = "None"
  THEN [is_malicious |-> FALSE, status |-> "not_configured", requested |-> FALSE]
  ELSE [requested    |-> TRUE,
        is_malicious |-> response = "200 ok",
        status       |-> CASE response = "200 ok"           -> "detected"
                           [] response = "200 no_results"   -> "clean"
                           [] response = "200 other"        -> "api_error"
                           [] response = "401"              -> "auth_error"
                           [] response = "429"              -> "rate_limited"
                           [] response = "500"              -> "http_error"
                           [] response = "timeout"          -> "timeout"
                           [] response = "connection_error" -> "connection_error"
                           [] OTHER                         -> "error"]

\* PhishGuardCore.check_urlhaus_host: the dict it returns, with the keys it
\* has in each case, and whether a request went out
check_urlhaus_host(key, response) ==
  IF key = "None"
  THEN [success |-> FALSE, error |-> "No URLhaus auth key", requested |-> FALSE]
  ELSE CASE response = "200 ok" ->
              [success |-> TRUE, is_malicious |-> TRUE, requested |-> TRUE]
         [] response = "200 no_results" ->
              [success |-> TRUE, is_malicious |-> FALSE, requested |-> TRUE]
         [] response = "timeout" ->
              [success |-> FALSE, error |-> "exception", requested |-> TRUE]
         [] OTHER ->
              [success |-> FALSE, error |-> "API request failed", requested |-> TRUE]

\* PhishGuardCore._check_phish_tank: is_phishing is the in_database field of
\* an HTTP 200 answer, False on every failure
PhishTankResponses == {"200 in_database", "200 not_in_database", "500", "timeout"}

_check_phish_tank(response) == [is_phishing |-> response = "200 in_database"]

(***************************************************************************)
(* URLhausClient (ai_training/urlhaus_integration.py), the rate-limited    *)
(* client.                                                                 *)
(***************************************************************************)
\* URLhausClient.min_request_interval, 1.0 s, in ticks of half a second
min_request_interval == 2

\* URLhausClient._make_request from the post on: the decoded answer, or None
\* when the post raises, raise_for_status() raises or response.json() raises
_make_request(response) ==
  CASE response = "200 ok"         -> [query_status |-> "ok"]
    [] response = "200 no_results" -> [query_status |-> "no_results"]
    [] response = "200 other"      -> [query_status |-> "other"]
    [] OTHER                       -> [query_status |-> "None"]

\* URLhausClient.query_url, given what _make_request returned
query_url(response) ==
  CASE response.query_status = "ok"         -> [status |-> "found", is_malicious |-> TRUE]
    [] response.query_status = "no_results" -> [status |-> "not_found", is_malicious |-> FALSE]
    [] OTHER                                -> [status |-> "error", is_malicious |-> FALSE]

\* URLhausClient._rate_limit: how long it sleeps, given the two times it reads
sleep_time(current_time, last) ==
  IF current_time - last < min_request_interval
  THEN min_request_interval - (current_time - last)
  ELSE 0

\* PhishGuardCore.get_detection_status, given apis['urlhaus'].get('auth_key'):
\* which detection methods are enabled
get_detection_status(key) ==
  [urlhaus          |-> [enabled |-> key # "None"],
   phish_tank       |-> [enabled |-> TRUE],
   pattern_analysis |-> [enabled |-> TRUE],
   url_structure    |-> [enabled |-> TRUE],
   myanmar_specific |-> [enabled |-> TRUE]]

(***************************************************************************)
(* The analyzers on the URLs analyze_url can be given (the analyzers are   *)
(* pure: these tables hold their values).                                  *)
(***************************************************************************)
pattern_scores   == [u \in NormalizedURLs |-> _pattern_analysis(Chars[u])]
structure_scores == [u \in NormalizedURLs |-> _analyze_url_structure(Chars[u])]
myanmar_scores   == [u \in NormalizedURLs |-> _detect_myanmar_scams(Chars[u])]

\* parsed_url.netloc of a normalized URL is not empty
HasNetloc == [u \in NormalizedURLs |-> urlparse(Chars[u]).netloc # <<>>]

(***************************************************************************)
(* State.                                                                  *)
(***************************************************************************)
VARIABLES
  core,               \* "none", "ready" or "failed": PhishGuardCore(...) not yet called, returned, raised
  auth_key,           \* apis['urlhaus']['auth_key']: "None" or the key
  store_faults,       \* whether sqlite operations can fail in this behaviour
  scam_urls,          \* table scam_urls
  scam_seq,           \* the AUTOINCREMENT sequence of scam_urls
  user_reports,       \* table user_reports
  detection_history,  \* table detection_history
  now,                \* CURRENT_TIMESTAMP: one tick per request served
  pc,                 \* where the analyze_url call in progress stands ("idle": none)
  request,            \* the latest request made of the core: [op, url]
  results,            \* its results dict; once it has returned, the dict returned
  trace,              \* the store, service and analyzer calls it has made
  urlhaus_result,     \* the dict _check_urlhaus returned to it
  last,               \* the analyze_url call before it
  report_result,      \* what the latest report_scam returned
  lookups,            \* the check_url_in_database calls of concurrent callers, each on its own connection
  db_lock,            \* the caller whose connection holds sqlite's write lock (0: none)
  clock,              \* time.time(), in ticks
  last_request_time,  \* URLhausClient.last_request_time
  callers,            \* the _make_request calls of concurrent callers sharing one URLhausClient
  sent                \* the times at which requests went out to URLhaus

vars == <<core, auth_key, store_faults, scam_urls, scam_seq, user_reports,
          detection_history, now, pc, request, results, trace, urlhaus_result,
          last, report_result, lookups, db_lock, clock, last_request_time,
          callers, sent>>

store   == <<scam_urls, scam_seq, user_reports, detection_history>>
\* the concurrent callers of the store and of the URLhaus client
concurrent == <<lookups, db_lock, clock, last_request_time, callers, sent>>
config  == <<core, auth_key, store_faults, concurrent>>
call    == <<pc, results, trace, urlhaus_result, last>>

NoResults == [threat_level |-> "none"]
NoUrlhaus == [status |-> "none"]
NoLast    == [valid |-> FALSE]
NoReport  == [success |-> FALSE, message |-> "none"]

\* the concurrent callers: at most MaxCallers of them
Callers == 1..MaxCallers

\* a caller that has not called yet
NoLookup == [pc |-> "start"]
NoCall   == [pc |-> "start"]

Tables == [scam_urls |-> scam_urls, scam_seq |-> scam_seq, user_reports |-> user_reports]

\* the outcomes of one sqlite transaction: it commits, or (when the store can
\* fail) raises and is rolled back
Faults == IF store_faults THEN {FALSE, TRUE} ELSE {FALSE}

Ev(op, res) == [op |-> op, res |-> res]
Req(op, url) == [op |-> op, url |-> url]

\* no request in progress or served, no concurrent caller under way
InitIdle ==
  /\ pc = "idle"
  /\ request = Req("none", "")
  /\ results = NoResults
  /\ trace = <<>>
  /\ urlhaus_result = NoUrlhaus
  /\ last = NoLast
  /\ report_result = NoReport
  /\ lookups = [c \in Callers |-> NoLookup]
  /\ db_lock = 0
  /\ clock = min_request_interval    \* time.time(): the epoch is long past
  /\ last_request_time = 0
  /\ callers = [c \in Callers |-> NoCall]
  /\ sent = <<>>

InitCommon ==
  /\ core = "none"
  /\ auth_key = "None"
  /\ scam_urls = <<>>
  /\ scam_seq = 0
  /\ user_reports = <<>>
  /\ detection_history = <<>>
  /\ now = 0
  /\ InitIdle

Init == InitCommon /\ store_faults = FALSE

InitFaults == InitCommon /\ store_faults = TRUE

(***************************************************************************)
(* PhishGuardCore.__init__(urlhaus_auth_key).  PhishGuardDatabase() creates*)
(* the tables (and raises if sqlite fails); then, for a non-empty key, the *)
(* constructor assigns into self.apis before self.apis exists, which       *)
(* raises AttributeError; otherwise self.apis is built with auth_key None. *)
(***************************************************************************)
Construct(key) ==
  /\ core = "none"
  /\ \E fails \in Faults :
       core' = IF fails \/ key # "None" THEN "failed" ELSE "ready"
  /\ auth_key' = "None"
  /\ UNCHANGED <<store_faults, concurrent, store, now, call, request, report_result>>

\* The application sets apis['urlhaus']['auth_key'] on the constructed
\* object ("Will be set via environment variable"): the only way the
\* URLhaus tiers can run, since the constructor cannot take the key.
SetAuthKey ==
  /\ core = "ready"
  /\ pc = "idle"
  /\ auth_key = "None"
  /\ auth_key' = AuthKey
  /\ request' = Req("set_auth_key", "")
  /\ UNCHANGED <<core, store_faults, concurrent, store, now, call, report_result>>

\* PhishGuardCore.initialize_database -> add_default_scam_urls
InitializeDatabase ==
  /\ core = "ready"
  /\ pc = "idle"
  /\ now < MaxOps
  /\ now' = now + 1
  /\ \E fails \in Faults :
       IF fails
       THEN UNCHANGED <<scam_urls, scam_seq>>
       ELSE /\ scam_urls' = InsertDefaults(scam_urls, scam_seq, 1, now')
            /\ scam_seq' = scam_seq + Len(default_scams)
  /\ request' = Req("initialize_database", "")
  /\ UNCHANGED <<config, user_reports, detection_history, call, report_result>>

\* report_scam, given what db.add_user_report did
Reported(r) ==
  /\ scam_urls' = r.tabs.scam_urls
  /\ scam_seq' = r.tabs.scam_seq
  /\ user_reports' = r.tabs.user_reports
  /\ report_result' = IF r.ret.success
                      THEN [r.ret EXCEPT !.message = "Scam reported successfully"]
                      ELSE r.ret

\* PhishGuardCore.report_scam
ReportScam(url) ==
  /\ core = "ready"
  /\ pc = "idle"
  /\ now < MaxOps
  /\ now' = now + 1
  /\ \E fails \in Faults : Reported(add_user_report(Tables, url, "user", now', fails))
  /\ request' = Req("report_scam", url)
  /\ UNCHANGED <<config, detection_history, call>>

(***************************************************************************)
(* analyze_url, one action per stretch between two points where the        *)
(* pipeline can go different ways.                                         *)
(***************************************************************************)
\* what a call keeps of the call before it: its verdict and trace, when that
\* call was for the same URL and was the latest request
Remember(url) ==
  IF request = Req("analyze_url", url)
  THEN [valid |-> TRUE, results |-> results, trace |-> trace]
  ELSE NoLast

\* Method 1, given what db.check_url_in_database did: on a hit the tier,
\* the log and the return
Method1(normalized_url, look, log_fails) ==
  LET r == TierLocal(InitialResults(normalized_url), look.result)
  IN  IF look.result.found
      THEN /\ scam_urls' = look.scam_urls
           /\ detection_history' =
                log_detection(detection_history, normalized_url, r.threat_level,
                              r.confidence, r.detection_methods, r.is_suspicious, log_fails)
           /\ results' = Finish(r)
           /\ pc' = "idle"
           /\ trace' = <<Ev("db.check_url_in_database", "hit"),
                         Ev("db.log_detection", IF log_fails THEN "error" ELSE "ok")>>
      ELSE /\ results' = InitialResults(normalized_url)
           /\ pc' = "urlhaus"
           /\ trace' = <<Ev("db.check_url_in_database", "miss")>>
           /\ UNCHANGED <<scam_urls, detection_history>>

\* analyze_url with a lookup whose sqlite error reaches the except clause of
\* analyze_url, as it would were check_url_in_database to let it through:
\* what Normalize must not be
NormalizeAbort(url, n) ==
  \E look_fails \in Faults, log_fails \in Faults :
    IF n.raises \/ look_fails
    THEN /\ results' = ErrorResults(url)
         /\ pc' = "idle"
         /\ trace' = <<>>
         /\ UNCHANGED <<scam_urls, detection_history>>
    ELSE Method1(n.url, check_url_in_database(scam_urls, n.url, now', FALSE), log_fails)

\* analyze_url from the normalization on; when _normalize_url raises, the
\* except clause returns
Normalize(url, n) ==
  IF n.raises
  THEN /\ results' = ErrorResults(url)
       /\ pc' = "idle"
       /\ trace' = <<>>
       /\ UNCHANGED <<scam_urls, detection_history>>
  ELSE \E look_fails \in Faults, log_fails \in Faults :
         Method1(n.url, check_url_in_database(scam_urls, n.url, now', look_fails), log_fails)

\* normalization, the results dict, Method 1
AnalyzeBegin(url) ==
  /\ core = "ready"
  /\ pc = "idle"
  /\ now < MaxOps
  /\ now' = now + 1
  /\ request' = Req("analyze_url", url)
  /\ last' = Remember(url)
  /\ urlhaus_result' = NoUrlhaus
  /\ Normalize(url, Normalized[url])
  /\ UNCHANGED <<config, scam_seq, user_reports, report_result>>

\* the responses a URLhaus query can get: none is asked for without a key
UrlhausResponses == IF auth_key = "None" THEN {"no request"} ELSE HttpResponses
HostResponses ==
  IF auth_key = "None" THEN {"no request"} ELSE {"200 ok", "200 no_results", "500", "timeout"}

Requested(r, op, res) == IF r.requested THEN <<Ev(op, res)>> ELSE <<>>
HostRes(h) == IF h.success /\ h.is_malicious THEN "malicious" ELSE "not malicious"

\* Method 2 on a detection, given what the write-through and the host
\* query did: the tiers, the log and the return
UrlhausDetected(added, has_netloc, host, log_fails) ==
  LET r1 == TierUrlhaus(results)
      r2 == IF has_netloc THEN TierUrlhausHostExtra(r1, host.success /\ host.is_malicious)
            ELSE r1
  IN  /\ scam_urls' = added.tabs.scam_urls
      /\ scam_seq' = added.tabs.scam_seq
      /\ user_reports' = added.tabs.user_reports
      /\ detection_history' =
           log_detection(detection_history, results.url, r2.threat_level,
                         r2.confidence, r2.detection_methods, r2.is_suspicious, log_fails)
      /\ results' = Finish(r2)
      /\ urlhaus_result' = NoUrlhaus
      /\ pc' = "idle"
      /\ trace' = trace
           \o <<Ev("urlhaus.url", "malicious"),
                Ev("db.add_user_report", IF added.ret.success THEN "ok" ELSE "error")>>
           \o (IF has_netloc THEN Requested(host, "urlhaus.host", HostRes(host)) ELSE <<>>)
           \o <<Ev("db.log_detection", IF log_fails THEN "error" ELSE "ok")>>

\* Method 2, given what _check_urlhaus returned
Method2(uh) ==
  IF uh.is_malicious
  THEN \E host_response \in HostResponses, add_fails \in Faults, log_fails \in Faults :
         UrlhausDetected(add_user_report(Tables, results.url, "Detected by URLhaus",
                                         now, add_fails),
                         HasNetloc[results.url],
                         check_urlhaus_host(auth_key, host_response),
                         log_fails)
  ELSE /\ urlhaus_result' = [is_malicious |-> uh.is_malicious, status |-> uh.status]
       /\ pc' = "host"
       /\ trace' = trace \o Requested(uh, "urlhaus.url", "not malicious")
       /\ UNCHANGED <<store, results>>

\* Method 2: the URLhaus URL query and, on a detection, the write-through,
\* the supplementary host query, the log and the return
AnalyzeUrlhaus ==
  /\ pc = "urlhaus"
  /\ \E response \in UrlhausResponses : Method2(_check_urlhaus(auth_key, response))
  /\ UNCHANGED <<config, now, request, last, report_result>>

\* the standalone URLhaus host query, made when parsed_url.netloc is not empty
HostTier(has_netloc, host) ==
  IF has_netloc
  THEN /\ results' = TierUrlhausHost(results, host.success /\ host.is_malicious)
       /\ trace' = trace \o Requested(host, "urlhaus.host", HostRes(host))
  ELSE UNCHANGED <<results, trace>>

AnalyzeHost ==
  /\ pc = "host"
  /\ \E host_response \in HostResponses :
       HostTier(HasNetloc[results.url], check_urlhaus_host(auth_key, host_response))
  /\ urlhaus_result' = NoUrlhaus
  /\ pc' = "phish_tank"
  /\ UNCHANGED <<config, store, now, request, last, report_result>>

\* Method 3
AnalyzePhishTank ==
  /\ pc = "phish_tank"
  /\ \E response \in PhishTankResponses :
       LET pt == _check_phish_tank(response)
       IN  /\ results' = TierPhishTank(results, pt.is_phishing)
           /\ trace' = Append(trace, Ev("phish_tank",
                                        IF pt.is_phishing THEN "phishing" ELSE "not phishing"))
  /\ pc' = "pattern"
  /\ UNCHANGED <<config, store, now, request, urlhaus_result, last, report_result>>

\* Method 4
AnalyzePattern ==
  /\ pc = "pattern"
  /\ results' = TierPattern(results, pattern_scores[results.url])
  /\ trace' = Append(trace, Ev("_pattern_analysis", "scored"))
  /\ pc' = "structure"
  /\ UNCHANGED <<config, store, now, request, urlhaus_result, last, report_result>>

\* Method 5
AnalyzeStructure ==
  /\ pc = "structure"
  /\ results' = TierStructure(results, structure_scores[results.url])
  /\ trace' = Append(trace, Ev("_analyze_url_structure", "scored"))
  /\ pc' = "myanmar"
  /\ UNCHANGED <<config, store, now, request, urlhaus_result, last, report_result>>

\* Method 6, the cap, the message and the return
AnalyzeMyanmar ==
  /\ pc = "myanmar"
  /\ results' = Finish(TierMyanmar(results, myanmar_scores[results.url]))
  /\ trace' = Append(trace, Ev("_detect_myanmar_scams", "scored"))
  /\ pc' = "idle"
  /\ UNCHANGED <<config, store, now, request, urlhaus_result, last, report_result>>

Next ==
  \/ \E key \in {"None", AuthKey} : Construct(key)
  \/ SetAuthKey
  \/ InitializeDatabase
  \/ \E url \in ReportInputs : ReportScam(url)
  \/ \E url \in AnalyzeInputs : AnalyzeBegin(url)
  \/ AnalyzeUrlhaus
  \/ AnalyzeHost
  \/ AnalyzePhishTank
  \/ AnalyzePattern
  \/ AnalyzeStructure
  \/ AnalyzeMyanmar

Spec == Init /\ [][Next]_vars

SpecFaults == InitFaults /\ [][Next]_vars

(***************************************************************************)
(* check_url_in_database called by concurrent callers (request handlers,   *)
(* worker processes).  Each call opens its own connection; sqlite lets any *)
(* number of connections read and one write.  The SELECT runs in           *)
(* autocommit mode; the UPDATE opens a transaction that holds the write    *)
(* lock until conn.commit().  A connection that finds the lock held waits, *)
(* and raises OperationalError('database is locked') once it has waited    *)
(* the timeout of sqlite3.connect (its default, 5 s); the except clause    *)
(* of check_url_in_database turns that into None.                          *)
(***************************************************************************)
\* the store once PhishGuardCore() and initialize_database() have run
InitLookups ==
  /\ core = "ready"
  /\ auth_key = "None"
  /\ store_faults = FALSE
  /\ scam_urls = InsertDefaults(<<>>, 0, 1, 1)
  /\ scam_seq = Len(default_scams)
  /\ user_reports = <<>>
  /\ detection_history = <<>>
  /\ now = 1
  /\ InitIdle

\* what check_url_in_database returns on a hit
HitResult(row) == [found |-> TRUE, report_count |-> row.report_count]
MissResult == [found |-> FALSE]

\* the call begins: url_hash, connect, the SELECT and fetchone(); without a
\* row it returns None
LookupSelect(c, url) ==
  /\ lookups[c].pc = "start"
  /\ now' = now + 1
  /\ LET row == SelectActive(scam_urls, HashOf(url))
     IN  lookups' = [lookups EXCEPT ![c] =
           IF row.found
           THEN [pc |-> "selected", url |-> url, began |-> now', row |-> row]
           ELSE [pc |-> "done", url |-> url, began |-> now', ended |-> now',
                 result |-> MissResult]]
  /\ UNCHANGED <<core, auth_key, store_faults, store, call, request, report_result,
                 db_lock, clock, last_request_time, callers, sent>>

\* the UPDATE takes the write lock
LookupUpdate(c) ==
  /\ lookups[c].pc = "selected"
  /\ db_lock = 0
  /\ db_lock' = c
  /\ lookups' = [lookups EXCEPT ![c].pc = "updated"]
  /\ UNCHANGED <<core, auth_key, store_faults, store, now, call, request, report_result,
                 clock, last_request_time, callers, sent>>

\* the UPDATE has waited for the write lock as long as the connection's
\* timeout: it raises, and the call returns None
LookupBusy(c) ==
  /\ lookups[c].pc = "selected"
  /\ db_lock \notin {0, c}
  /\ lookups' = [lookups EXCEPT ![c] =
       [pc |-> "done", url |-> @.url, began |-> @.began, ended |-> now,
        result |-> MissResult]]
  /\ UNCHANGED <<core, auth_key, store_faults, store, now, call, request, report_result,
                 db_lock, clock, last_request_time, callers, sent>>

\* conn.commit() and the return of the row that was fetched
LookupCommit(c) ==
  /\ lookups[c].pc = "updated"
  /\ db_lock = c
  /\ db_lock' = 0
  /\ scam_urls' = BumpRow(scam_urls, HashOf(lookups[c].url), now)
  /\ lookups' = [lookups EXCEPT ![c] =
       [pc |-> "done", url |-> @.url, began |-> @.began, ended |-> now,
        result |-> HitResult(@.row)]]
  /\ UNCHANGED <<core, auth_key, store_faults, scam_seq, user_reports, detection_history,
                 now, call, request, report_result,
                 clock, last_request_time, callers, sent>>

NextLookups ==
  \/ \E c \in Callers, url \in LookupInputs : LookupSelect(c, url)
  \/ \E c \in Callers : LookupUpdate(c)
  \/ \E c \in Callers : LookupBusy(c)
  \/ \E c \in Callers : LookupCommit(c)

SpecLookups == InitLookups /\ [][NextLookups]_vars

(***************************************************************************)
(* URLhausClient.query_url called by concurrent callers that share one     *)
(* client.  _rate_limit reads the time and last_request_time, sleeps if    *)
(* the interval has not passed, and stores the time; nothing in it or      *)
(* around it excludes another caller.  The request goes out as _rate_limit *)
(* returns.                                                                *)
(***************************************************************************)
InitClient == InitLookups

\* time passes
Tick ==
  /\ clock < MaxClock
  /\ clock' = clock + 1
  /\ UNCHANGED <<core, auth_key, store_faults, store, now, call, request, report_result,
                 lookups, db_lock, last_request_time, callers, sent>>

\* _rate_limit: current_time, time_since_last, and the decision to sleep
RateCheck(c) ==
  /\ callers[c].pc = "start"
  /\ callers' = [callers EXCEPT ![c] =
       [pc |-> "sleeping", wake |-> clock + sleep_time(clock, last_request_time)]]
  /\ UNCHANGED <<core, auth_key, store_faults, store, now, call, request, report_result,
                 lookups, db_lock, clock, last_request_time, sent>>

\* time.sleep(sleep_time) is over (at once when there was none); _rate_limit
\* stores the time, and _make_request posts the request and query_url
\* returns what it makes of the answer
Send(c, response) ==
  /\ callers[c].pc = "sleeping"
  /\ clock >= callers[c].wake
  /\ last_request_time' = clock
  /\ sent' = Append(sent, clock)
  /\ callers' = [callers EXCEPT ![c] =
       [pc |-> "done", response |-> response, result |-> query_url(_make_request(response))]]
  /\ UNCHANGED <<core, auth_key, store_faults, store, now, call, request, report_result,
                 lookups, db_lock, clock>>

NextClient ==
  \/ Tick
  \/ \E c \in Callers : RateCheck(c)
  \/ \E c \in Callers, response \in HttpResponses : Send(c, response)

SpecClient == InitClient /\ [][NextClient]_vars

(***************************************************************************)
(* The URLhaus requests of consecutive analyze_url calls against the       *)
(* clock.  With a key set, _check_urlhaus posts the URL query and          *)
(* check_urlhaus_host posts the host query through self.session.post; a    *)
(* call is the c-th analyze_url of a URL that has a netloc and is not in   *)
(* the local store, and one call has returned before the next begins.      *)
(* PhishGuardCore holds no last-request time and calls no _rate_limit:     *)
(* each request goes out at the time the call reaches it.                  *)
(***************************************************************************)
InitIntel ==
  /\ core = "ready"
  /\ auth_key = AuthKey
  /\ store_faults = FALSE
  /\ scam_urls = InsertDefaults(<<>>, 0, 1, 1)
  /\ scam_seq = Len(default_scams)
  /\ user_reports = <<>>
  /\ detection_history = <<>>
  /\ now = 1
  /\ InitIdle

\* no analyze_url call is between its URL query and its host query
NoCallUnderWay == \A d \in Callers : callers[d].pc # "url_sent"

\* _check_urlhaus: the key is there, session.post sends the URL query
IntelUrlQuery(c) ==
  /\ auth_key # "None"
  /\ callers[c].pc = "start"
  /\ NoCallUnderWay
  /\ sent' = Append(sent, clock)
  /\ callers' = [callers EXCEPT ![c] = [pc |-> "url_sent"]]
  /\ UNCHANGED <<core, auth_key, store_faults, store, now, call, request, report_result,
                 lookups, db_lock, clock, last_request_time>>

\* check_urlhaus_host, after the URL query whatever it answered: the key is
\* there, session.post sends the host query
IntelHostQuery(c) ==
  /\ auth_key # "None"
  /\ callers[c].pc = "url_sent"
  /\ sent' = Append(sent, clock)
  /\ callers' = [callers EXCEPT ![c] = [pc |-> "done"]]
  /\ UNCHANGED <<core, auth_key, store_faults, store, now, call, request, report_result,
                 lookups, db_lock, clock, last_request_time>>

NextIntel ==
  \/ Tick
  \/ \E c \in Callers : IntelUrlQuery(c)
  \/ \E c \in Callers : IntelHostQuery(c)

SpecIntel == InitIntel /\ [][NextIntel]_vars

(***************************************************************************)
(* Properties.                                                             *)
(***************************************************************************)
\* an analyze_url call has returned, and `results` is what it returned
Returned == pc = "idle" /\ results # NoResults

\* the operations named in a trace
Ops(tr) == {tr[i].op : i \in 1..Len(tr)}
HasEv(tr, op, res) == \E i \in 1..Len(tr) : tr[i] = Ev(op, res)

IntelOps     == {"urlhaus.url", "urlhaus.host", "phish_tank"}
HeuristicOps == {"_pattern_analysis", "_analyze_url_structure", "_detect_myanmar_scams"}

\* scam_urls holds an active record with this url_hash
ActiveRecord(rows, h) == \E i \in 1..Len(rows) : rows[i].url_hash = h /\ rows[i].is_active

\* the normalized form of u has an active record in the store
LocalHit(u) == ~Normalized[u].raises /\ ActiveRecord(scam_urls, HashOf(Normalized[u].url))

\* C1: when the normalized form of the URL has an active record in the
\* store (and the store works), analyze_url returns in its first tier with
\* threat_level 'critical', is_suspicious true and detection_methods exactly
\* ['local_database'], having made no URLhaus URL query, no URLhaus host
\* query, no PhishTank query and no heuristic analyzer call.
C1_LocalShortCircuit ==
  [][\A u \in AnalyzeInputs :
       (AnalyzeBegin(u) /\ LocalHit(u)) =>
         /\ pc' = "idle"
         /\ results'.threat_level = "critical"
         /\ results'.is_suspicious
         /\ results'.detection_methods = <<"local_database">>
         /\ Ops(trace') \cap (IntelOps \cup HeuristicOps) = {}]_vars

\* a call has returned from a local-store hit
C1_Witness ==
  /\ Returned
  /\ request.op = "analyze_url"
  /\ HasEv(trace, "db.check_url_in_database", "hit")
  /\ results.detection_methods = <<"local_database">>

\* C2: an analyze_url(u) that immediately follows a successful
\* report_scam(u) returns from the local-store tier, with detection_methods
\* ['local_database'], for every URL string u.
C2_ReportThenAnalyze ==
  [][\A u \in AnalyzeInputs :
       (AnalyzeBegin(u) /\ request = Req("report_scam", u) /\ report_result.success) =>
         /\ pc' = "idle"
         /\ results'.detection_methods = <<"local_database">>]_vars

VerdictFields ==
  {"url", "is_suspicious", "threat_level", "confidence", "detection_methods",
   "warnings", "message"}

\* C3: every analyze_url call returns a verdict that carries url,
\* is_suspicious, threat_level, confidence, detection_methods, warnings and
\* message, whatever the input and whatever fails in the store or the services.
C3_VerdictComplete == Returned => VerdictFields \subseteq DOMAIN results

\* C4: every verdict analyze_url returns has a confidence, and it lies in
\* [0, 1] (0..100 hundredths).
C4_ConfidenceBounded ==
  Returned => ("confidence" \in DOMAIN results /\ results.confidence \in 0..100)

\* `results` is the dict of a call that got past normalization
Pipeline(r) == r # NoResults /\ r.threat_level # "unknown"

SetMax(S) == CHOOSE x \in S : \A y \in S : y <= x

\* critical > high > medium > safe
Severity(level) ==
  CASE level = "safe" -> 0 [] level = "medium" -> 1 [] level = "high" -> 2
    [] level = "critical" -> 3

\* what a tier that fired contributes
Contribution(method, url) ==
  CASE method \in {"local_database", "urlhaus", "phish_tank"} -> 3
    [] method = "urlhaus_host" -> 2
    [] method = "pattern_analysis" -> IF FloatGt(pattern_scores[url], 7) THEN 2 ELSE 1
    [] method = "url_structure" -> 1
    [] method = "myanmar_specific" -> 2

MaxSeverity(r) ==
  SetMax({0} \cup {Contribution(r.detection_methods[i], r.url) :
                     i \in 1..Len(r.detection_methods)})

\* C5: within one analyze_url call no step lowers threat_level, and at every
\* point of a call that got past normalization threat_level is the maximum
\* severity among the contributions of the tiers that have fired (local
\* store, URLhaus URL, PhishTank: critical; URLhaus host: high; pattern: high
\* if its score > 0.7, else medium; structure: medium; regional: high).
C5_Escalation ==
  [][/\ pc # "idle" => Severity(results'.threat_level) >= Severity(results.threat_level)
     /\ Pipeline(results') => Severity(results'.threat_level) = MaxSeverity(results')]_vars

\* a call has returned in which the structure tier fired after PhishTank had
\* already raised the level to critical
C5_Witness ==
  /\ Returned
  /\ Pipeline(results)
  /\ InSeq("phish_tank", results.detection_methods)
  /\ InSeq("url_structure", results.detection_methods)
  /\ results.threat_level = "critical"

\* the intel services gave the same answers in two calls: whatever both
\* calls asked, they were told the same
SameAnswers(tr1, tr2) ==
  \A i \in 1..Len(tr1), j \in 1..Len(tr2) :
    (tr1[i].op \in IntelOps /\ tr1[i].op = tr2[j].op) => tr1[i].res = tr2[j].res

Methods(r) == IF "detection_methods" \in DOMAIN r THEN r.detection_methods ELSE <<>>

\* two analyze_url calls of the same URL in a row, the second returned
TwiceInARow == Returned /\ last.valid /\ SameAnswers(last.trace, trace)

C7_UrlhausTerminal ==
  HasEv(trace, "urlhaus.url", "malicious") =>
    /\ pc = "idle"
    /\ trace[1] = Ev("db.check_url_in_database", "miss")
    /\ results.threat_level = "critical"
    /\ InSeq("urlhaus", results.detection_methods)
    /\ results.confidence >= 95
    /\ Ops(trace) \subseteq {"db.check_url_in_database", "urlhaus.url", "db.add_user_report",
                             "urlhaus.host", "db.log_detection"}

\* a call has returned from a URLhaus detection, the host query having
\* found the host malicious too
C7_Witness ==
  /\ Returned
  /\ HasEv(trace, "urlhaus.url", "malicious")
  /\ HasEv(trace, "urlhaus.host", "malicious")
  /\ results.detection_methods = <<"urlhaus", "urlhaus_host">>

\* C8: the analyze_url call that follows one in which URLhaus reported the
\* same URL malicious returns from the local store alone: detection_methods
\* is ['local_database'] and no intel request is made (the store working).
C8_WriteThrough ==
  (Returned /\ last.valid /\ HasEv(last.trace, "urlhaus.url", "malicious")) =>
    /\ results.detection_methods = <<"local_database">>
    /\ Ops(trace) \cap IntelOps = {}

\* such a call has returned, from a hit on the record the write-through made
C8_Witness ==
  /\ Returned
  /\ last.valid
  /\ HasEv(last.trace, "urlhaus.url", "malicious")
  /\ HasEv(last.trace, "db.add_user_report", "ok")
  /\ HasEv(trace, "db.check_url_in_database", "hit")

\* a step of an analyze_url call
AnalyzeStep == pc # "idle" \/ \E u \in AnalyzeInputs : AnalyzeBegin(u)

\* C9: every analyze_url call appends exactly one row to detection_history:
\* the step in which it returns appends one, its other steps none.
C9_OneEventPerCall ==
  [][AnalyzeStep =>
       IF pc' = "idle"
       THEN Len(detection_history') = Len(detection_history) + 1
       ELSE detection_history' = detection_history]_vars

\* C10: no step of an analyze_url call appends a user_reports row, and
\* pending_user_reports of the statistics is the same after it as before.
C10_NoUserReport ==
  [][AnalyzeStep =>
       /\ user_reports' = user_reports
       /\ get_database_stats(scam_urls', user_reports', detection_history').pending_user_reports
            = get_database_stats(scam_urls, user_reports, detection_history).pending_user_reports]_vars

\* C11: whatever sequence of add_default_scam_urls, add_user_report,
\* check_url_in_database and analyze_url write-throughs has run, committed or
\* rolled back, scam_urls holds at most one row per url_hash
C11_OneRecordPerHash ==
  \A i, j \in 1..Len(scam_urls) :
    scam_urls[i].url_hash = scam_urls[j].url_hash => i = j

\* a URL sighted again after its record was created: two reports of one
\* url_hash are on file, and its one record counts them
C11_Witness ==
  \E i, j \in 1..Len(user_reports) :
    /\ i < j
    /\ user_reports[i].url_hash = user_reports[j].url_hash
    /\ \E k \in 1..Len(scam_urls) :
         /\ scam_urls[k].url_hash = user_reports[i].url_hash
         /\ scam_urls[k].report_count >= 3

\* a step in which add_user_report committed, for report_scam or for the
\* URLhaus write-through, and the url_hash it was given
ReportFiled == Len(user_reports') = Len(user_reports) + 1
FiledHash == user_reports'[Len(user_reports')].url_hash

\* C12: when add_user_report commits for a url_hash that already has a
\* record, scam_urls keeps its rows, the record keeps its id, original_url,
\* threat_type, source, confidence, first_seen and is_active, its report_count
\* goes up by 1 and its last_seen becomes the time of the report; no other
\* row changes
C12_BumpKeepsRecord ==
  [][ (ReportFiled /\ HasHash(scam_urls, FiledHash)) =>
        /\ Len(scam_urls') = Len(scam_urls)
        /\ \A i \in 1..Len(scam_urls) :
             scam_urls'[i] = IF scam_urls[i].url_hash = FiledHash
                             THEN [scam_urls[i] EXCEPT !.report_count = @ + 1,
                                                       !.last_seen = now']
                             ELSE scam_urls[i] ]_vars

\* a report of a URL that add_default_scam_urls had recorded earlier: the
\* record is still the default one, sighted twice
C12_Witness ==
  /\ request.op = "report_scam"
  /\ report_result.success
  /\ \E k \in 1..Len(scam_urls) :
       /\ scam_urls[k].url_hash = HashOf(request.url)
       /\ scam_urls[k].source = "kbz_bank"
       /\ scam_urls[k].confidence = 90
       /\ scam_urls[k].report_count = 2
       /\ scam_urls[k].first_seen < scam_urls[k].last_seen

\* caller c's check_url_in_database returns in this step
LookupReturns(c) == lookups[c].pc # "done" /\ lookups'[c].pc = "done"

\* callers c and d have both looked up one URL and found it, d beginning
\* after c had returned
Successive(c, d) ==
  /\ lookups[c].pc = "done" /\ lookups[c].result.found
  /\ lookups[d].pc = "done" /\ lookups[d].result.found
  /\ lookups[c].url = lookups[d].url
  /\ lookups[c].ended < lookups[d].began

SuccessiveIncrease ==
  \A c, d \in Callers :
    Successive(c, d) => lookups[c].result.report_count < lookups[d].result.report_count

\* C13: a check_url_in_database call that returns a record has raised that
\* record's report_count by exactly 1 and set its last_seen to the current
\* time, changing nothing else; one that returns None has changed nothing;
\* and of two successive lookups of one URL the later returns the greater
\* report_count
C13_HitBumpsByOne ==
  [][ /\ \A c \in Callers :
           LookupReturns(c) =>
             /\ Len(scam_urls') = Len(scam_urls)
             /\ \A i \in 1..Len(scam_urls) :
                  scam_urls'[i] =
                    IF /\ lookups'[c].result.found
                       /\ scam_urls[i].url_hash = HashOf(lookups'[c].url)
                    THEN [scam_urls[i] EXCEPT !.report_count = @ + 1, !.last_seen = now]
                    ELSE scam_urls[i]
      /\ SuccessiveIncrease' ]_vars

\* two successive lookups of one URL have both found it: the record, first
\* seen with report_count 1, counts both and was last seen at the second
C13_Witness ==
  \E c, d \in Callers :
    /\ Successive(c, d)
    /\ lookups[c].result.report_count = 1
    /\ lookups[d].result.report_count = 2
    /\ \E k \in 1..Len(scam_urls) :
         /\ scam_urls[k].url_hash = HashOf(lookups[c].url)
         /\ scam_urls[k].report_count = 3
         /\ scam_urls[k].last_seen = lookups[d].began

\* the callers that looked up the URL of url_hash h
LookedUp(h) == {c \in Callers : lookups[c].pc = "done" /\ HashOf(lookups[c].url) = h}

\* C14: once the concurrent lookups have all returned, every record's
\* report_count is higher than it started (at 1) by the number of lookups
\* of its URL
C14_NoLostIncrement ==
  (\A c \in Callers : lookups[c].pc = "done") =>
    \A k \in 1..Len(scam_urls) :
      scam_urls[k].report_count = 1 + Cardinality(LookedUp(scam_urls[k].url_hash))

\* stats() before and after a step
StatsBefore == get_database_stats(scam_urls, user_reports, detection_history)
StatsAfter  == get_database_stats(scam_urls', user_reports', detection_history')

\* what a successful report_scam(url) does to the counters of stats()
ReportCounted(url) ==
  /\ StatsAfter.pending_user_reports = StatsBefore.pending_user_reports + 1
  /\ StatsAfter.total_scam_urls =
       StatsBefore.total_scam_urls + (IF HasHash(scam_urls, HashOf(url)) THEN 0 ELSE 1)

C17_FailedReportLeavesStore ==
  [][ \A url \in ReportInputs :
        (ReportScam(url) /\ ~report_result'.success) =>
          /\ report_result'.message = "Error adding report"
          /\ UNCHANGED store ]_vars

\* sqlite failed under the report of a URL that parses and has a record: no
\* report is on file and the record has not been bumped
C17_Witness ==
  /\ request.op = "report_scam"
  /\ ~parse_raises[request.url]
  /\ ~report_result.success
  /\ report_result.message = "Error adding report"
  /\ user_reports = <<>>
  /\ \E k \in 1..Len(scam_urls) :
       /\ scam_urls[k].url_hash = HashOf(request.url)
       /\ scam_urls[k].report_count = 1

\* the store was unavailable to the call with this trace: its lookup found
\* nothing, and neither its write-through nor its log went through
StoreDown(tr) ==
  /\ ~HasEv(tr, "db.check_url_in_database", "hit")
  /\ ~HasEv(tr, "db.add_user_report", "ok")
  /\ ~HasEv(tr, "db.log_detection", "ok")

\* two analyze_url calls of one URL with the same answers from the
\* services: the first on the empty store of a new core, the second with
\* the store unavailable
EmptyThenDown == TwiceInARow /\ now = 2 /\ StoreDown(trace)

\* C18: the verdict of an analyze_url call to which the store is unavailable
\* has the threat_level and the detection_methods of the verdict the same
\* call gets on an empty store; and no verdict is 'unknown' unless
\* normalization of the URL raises
C18_StoreFailOpen ==
  /\ EmptyThenDown =>
       /\ results.threat_level = last.results.threat_level
       /\ Methods(results) = Methods(last.results)
  /\ (Returned /\ results.threat_level = "unknown") => Normalized[results.url].raises

\* the store holds a record of the URL, written through by the first call,
\* and fails under the second: lookup, write-through and all
C18_Witness ==
  /\ EmptyThenDown
  /\ ActiveRecord(scam_urls, HashOf(results.url))
  /\ HasEv(trace, "db.add_user_report", "error")
  /\ results.threat_level = "critical"
  /\ Methods(results) = Methods(last.results)

\* what an intel operation must return when URLhaus is not configured
NotConfigured(r) ==
  /\ ~r.requested
  /\ "is_malicious" \in DOMAIN r /\ ~r.is_malicious
  /\ "status" \in DOMAIN r /\ r.status = "not_configured"

\* C19: while no URLhaus key is set, the URL query of an analyze_url call
\* that has come to it, and the host query of one that has come to that,
\* return is_malicious false and status 'not_configured' without a request;
\* and no call has asked URLhaus anything or named it in detection_methods
C19_NotConfigured ==
  auth_key = "None" =>
    /\ pc = "urlhaus" =>
         \A response \in UrlhausResponses : NotConfigured(_check_urlhaus(auth_key, response))
    /\ (pc = "host" /\ HasNetloc[results.url]) =>
         \A response \in HostResponses : NotConfigured(check_urlhaus_host(auth_key, response))
    /\ Returned =>
         /\ Ops(trace) \cap {"urlhaus.url", "urlhaus.host"} = {}
         /\ ~InSeq("urlhaus", Methods(results))
         /\ ~InSeq("urlhaus_host", Methods(results))

\* C15: of the requests one URLhausClient has sent, whichever callers sent
\* them, any two are at least min_request_interval apart
C15_RequestsSpaced ==
  \A i, j \in 1..Len(sent) :
    i < j => sent[j] - sent[i] >= min_request_interval

\* the failure causes of a URLhaus URL query: timeout, connection error,
\* HTTP 401, HTTP 429, another HTTP error, malformed response
FailureCauses == {"timeout", "connection_error", "401", "429", "500", "malformed"}

\* caller c's query_url has returned, the request having failed
QueryFailed(c) == callers[c].pc = "done" /\ callers[c].response \in FailureCauses

\* C20: the URL query returns is_malicious false on every failure, and
\* different failure causes get different status strings: in
\* PhishGuardCore._check_urlhaus, and in URLhausClient.query_url for any two
\* callers whose requests failed
C20_DistinctStatuses ==
  /\ \A r1, r2 \in FailureCauses :
       /\ ~_check_urlhaus(AuthKey, r1).is_malicious
       /\ r1 # r2 => _check_urlhaus(AuthKey, r1).status # _check_urlhaus(AuthKey, r2).status
  /\ \A c, d \in Callers :
       (QueryFailed(c) /\ QueryFailed(d)) =>
         /\ ~callers[c].result.is_malicious
         /\ callers[c].response # callers[d].response =>
              callers[c].result.status # callers[d].result.status

\* verdict r2 has the signals of r1: is_suspicious, threat_level,
\* detection_methods and warnings
SameSignals(r1, r2) ==
  /\ r2.is_suspicious = r1.is_suspicious
  /\ r2.threat_level = r1.threat_level
  /\ r2.detection_methods = r1.detection_methods
  /\ r2.warnings = r1.warnings

\* C21: a heuristic tier whose score is not above its threshold (pattern
\* 0.3, structure 0.6, regional 0.7) leaves is_suspicious, threat_level,
\* detection_methods, warnings and confidence as they were; after the last
\* tier the confidence is only capped at 1.0 for the return
C21_BelowThresholdNoEffect ==
  [][ /\ (pc = "pattern" /\ pc' = "structure" /\ ~FloatGt(pattern_scores[results.url], 3)) =>
           (SameSignals(results, results') /\ results'.confidence = results.confidence)
      /\ (pc = "structure" /\ pc' = "myanmar" /\ ~FloatGt(structure_scores[results.url], 6)) =>
           (SameSignals(results, results') /\ results'.confidence = results.confidence)
      /\ (pc = "myanmar" /\ pc' = "idle" /\ ~FloatGt(myanmar_scores[results.url], 7)) =>
           (SameSignals(results, results') /\ results'.confidence = Clamp(results.confidence))
    ]_vars

\* a call has returned for a URL whose regional score is exactly 0.7 and
\* whose structure score is 0.3: the pattern tier fired, the other two left
\* no mark
C21_Witness ==
  /\ Returned
  /\ results.threat_level # "unknown"
  /\ myanmar_scores[results.url] = F(7)
  /\ structure_scores[results.url] = F(3)
  /\ HasEv(trace, "_detect_myanmar_scams", "scored")
  /\ results.detection_methods = <<"pattern_analysis">>
  /\ results.confidence = 40

\* netloc is a literal dotted-quad IP address: four groups of digits
DottedQuad(netloc) ==
  /\ MatchQuad(netloc, 1, 4)
  /\ Len(split(netloc, ".")) = 4
  /\ \A i \in 1..Len(netloc) : netloc[i] \in Digits \cup {"."}

\* the normalized URLs whose host is one
LiteralIPHost == [u \in NormalizedURLs |-> DottedQuad(urlparse(Chars[u]).netloc)]

\* the call that has returned went through all the tiers, and neither the
\* store nor an intel service detected the URL
NoDetectionBeforeHeuristics ==
  /\ Returned
  /\ Pipeline(results)
  /\ HasEv(trace, "_analyze_url_structure", "scored")
  /\ \A mth \in {"local_database", "urlhaus", "urlhaus_host", "phish_tank"} :
       ~InSeq(mth, results.detection_methods)

\* C22: the verdict on a URL whose host is a literal dotted-quad IP address,
\* with no record in the store and no intel detection, has 'url_structure'
\* in detection_methods and a threat_level of medium or above
C22_LiteralIPFires ==
  (NoDetectionBeforeHeuristics /\ LiteralIPHost[results.url]) =>
    /\ InSeq("url_structure", results.detection_methods)
    /\ Severity(results.threat_level) >= 1

\* the key of a query parameter: what stands before its first '='
ParamKey(p) == split(p, "=")[1]

KeyOnDenylist(p) == \E k \in 1..Len(tracking_params) : ParamKey(p) = Chars[tracking_params[k]]

\* the query parameters of a URL, in order
QueryParams(url) ==
  LET query == urlparse(url).query
  IN  IF query = <<>> THEN <<>> ELSE split(query, "&")

\* the query parameters whose key is not one of the five tracking keys
OtherParams(url) ==
  LET KeyKept(p) == ~KeyOnDenylist(p)
  IN  SelectSeq(QueryParams(url), KeyKept)

ParamsGiven == [u \in AnalyzeInputs |-> OtherParams(Chars[u])]
ParamsLeft  == [u \in NormalizedURLs |-> QueryParams(Chars[u])]

\* analyze_url has normalized the URL it was given
NormalizedRequest == request.op = "analyze_url" /\ ~Normalized[request.url].raises

\* C23: the query parameters of a normalized URL are the parameters of the
\* URL given whose key is none of utm_source, utm_medium, utm_campaign, ref,
\* source: each of them unchanged, in their original order.
C23_DenylistedKeysOnly ==
  NormalizedRequest => ParamsLeft[Normalized[request.url].url] = ParamsGiven[request.url]

\* _normalize_url applied to its own result
NormalizedTwice ==
  [u \in AnalyzeInputs |->
     IF Normalized[u].raises THEN Normalized[u]
     ELSE NormalizedName(_normalize_url(Chars[Normalized[u].url]))]

\* C24: _normalize_url is idempotent on every input string: it returns on
\* the URL given, returns on its own result, and the two results are equal.
C24_NormalizeIdempotent ==
  request.op = "analyze_url" =>
    /\ ~Normalized[request.url].raises
    /\ ~NormalizedTwice[request.url].raises
    /\ NormalizedTwice[request.url].url = Normalized[request.url].url

\* the report_count of the record of url_hash h in rows (0: no record)
CountOf(rows, h) ==
  IF HasHash(rows, h)
  THEN (CHOOSE row \in {rows[k] : k \in 1..Len(rows)} : row.url_hash = h).report_count
  ELSE 0

\* C25: when add_user_report commits, the record of the reported url_hash
\* has report_count 1 if the call created it, and one more than before if
\* it was already present.
C25_NewRecordCountsOne ==
  [][ ReportFiled =>
        CountOf(scam_urls', FiledHash) = CountOf(scam_urls, FiledHash) + 1 ]_vars

\* a step in which analyze_url wrote a DetectionEvent, and the event
EventLogged == Len(detection_history') = Len(detection_history) + 1
LoggedEvent == detection_history'[Len(detection_history')]

\* C26: every DetectionEvent analyze_url writes has the threat_level, the
\* detection_methods and the confidence of the verdict the call returns, and
\* its confidence is within [0, 1].
C26_LoggedAsReturned ==
  [][ EventLogged =>
        /\ pc' = "idle"
        /\ LoggedEvent.threat_level = results'.threat_level
        /\ LoggedEvent.detection_methods = results'.detection_methods
        /\ LoggedEvent.confidence = results'.confidence
        /\ LoggedEvent.confidence \in 0..100 ]_vars

\* C27: the URLhaus requests sent for analyze_url, the URL query and the
\* host query of one call and the requests of consecutive calls, are each
\* sent at least min_request_interval after the request before.
C27_IntelRequestsSpaced ==
  \A i \in 1..Len(sent) - 1 : sent[i + 1] - sent[i] >= min_request_interval

\* C28: in every verdict analyze_url returns without an internal error,
\* is_suspicious is true exactly when detection_methods is not empty and
\* exactly when threat_level is not 'safe'; a verdict with no detection
\* method is 'safe', not suspicious, with confidence 0.
C28_SignalsAgree ==
  (Returned /\ Pipeline(results)) =>
    /\ results.is_suspicious <=> results.detection_methods # <<>>
    /\ results.is_suspicious <=> results.threat_level # "safe"
    /\ results.detection_methods = <<>> =>
         /\ results.threat_level = "safe"
         /\ ~results.is_suspicious
         /\ results.confidence = 0

\* a verdict of PhishTank alone, after a call of the same URL on which no
\* tier fired
C28_Witness ==
  /\ Returned
  /\ Pipeline(results)
  /\ results.detection_methods = <<"phish_tank">>
  /\ results.threat_level = "critical"
  /\ results.is_suspicious
  /\ last.valid
  /\ last.results.detection_methods = <<>>
  /\ last.results.threat_level = "safe"
  /\ last.results.confidence = 0

\* C29: PhishGuardCore(urlhaus_auth_key) with a non-empty key completes
\* without error and leaves the key stored, so that get_detection_status
\* reports urlhaus enabled.
C29_ConstructWithKey ==
  [][ Construct(AuthKey) =>
        /\ core' = "ready"
        /\ auth_key' = AuthKey
        /\ get_detection_status(auth_key').urlhaus.enabled ]_vars

\* C30: a report_scam that succeeds returns as report_id the id of the
\* user_reports row it appended, and therefore an id other than the one the
\* successful report before it returned.
C30_ReportIdOfRow ==
  [][ \A url \in ReportInputs :
        (ReportScam(url) /\ report_result'.success) =>
          /\ ReportFiled
          /\ report_result'.report_id = user_reports'[Len(user_reports')].id
          /\ report_result.success =>
               report_result'.report_id # report_result.report_id ]_vars
====
